---- MODULE Spec2Model ----
(***************************************************************************)
(* Azure Monitor trace exporter: the factory (factory.go) and the trace   *)
(* exporter (traceexporter.go) as a state machine.                         *)
(*                                                                         *)
(* The factory lazily builds one transport channel and hands it to every  *)
(* exporter it creates.  An exporter's consume entry point (onTraceData)   *)
(* walks a batch with a per-call visitor that builds one envelope per      *)
(* span, stamps the instrumentation key and calls Send; Shutdown calls the *)
(* channel's Close and waits for the signal it returns.                    *)
(*                                                                         *)
(* The batch walker (Accept), the envelope builder (spanToEnvelope), the   *)
(* batch's SpanCount and the transport channel are not in factory.go or    *)
(* traceexporter.go; they are modelled from their documented contracts.    *)
(* Durations are in seconds.                                               *)
(***************************************************************************)
EXTENDS Integers, Sequences, FiniteSets, TLC

\* ------------------------------------------------------------------ bounds

\* Most spans in one batch of the batch-walking specifications.
MaxSpans == 2

\* Most createDefaultConfig calls.
MaxConfigs == 2

\* Most createTraceExporter calls on the factory.
MaxCreates == 2

\* Capacity of the transport channel's in-memory buffer.
MaxBuffer == 2

\* --------------------------------------------------------------- constants

typeStr == "azuremonitor"

defaultEndpoint == "https://dc.services.visualstudio.com/v2/track"

\* A Go error value: its message, and whether consumererror.Permanent marked
\* it as not to be retried.
NewError(message) == [permanent |-> FALSE, cause |-> message]

errUnexpectedConfigurationType ==
    NewError("failed to cast configuration to Azure Monitor Config")

\* Go's nil error.
NoError == NewError("nil")

\* The error slot of a call that has not returned.
NotReturned == NewError("not returned")

\* Go's nil transportChannel in factory.tChannel.
NilChannel == 0

\* ----------------------------------------------------------- configuration

\* The *Config createDefaultConfig returns; InstrumentationKey is left at the
\* zero value of a Go string.
createDefaultConfig ==
    [ goType             |-> "*Config",
      TypeVal            |-> typeStr,
      NameVal            |-> typeStr,
      Endpoint           |-> defaultEndpoint,
      InstrumentationKey |-> "",
      MaxBatchSize       |-> 1024,
      MaxBatchInterval   |-> 10,
      ShutdownTimeout    |-> 5 ]

\* Configurations the host hands to createTraceExporter: the defaults (empty
\* key), the defaults with a key, a fully customised one, and a
\* configmodels.Exporter of another exporter's type.
ConfigA == [createDefaultConfig EXCEPT !.InstrumentationKey = "ikey-a"]

ConfigB ==
    [createDefaultConfig EXCEPT !.InstrumentationKey = "ikey-b",
                                !.Endpoint = "https://ingest.example/v2/track",
                                !.MaxBatchSize = 16,
                                !.MaxBatchInterval = 1,
                                !.ShutdownTimeout = 1]

OtherConfig == [createDefaultConfig EXCEPT !.goType = "*otherexporter.Config"]

HostConfigs == {createDefaultConfig, ConfigA, ConfigB, OtherConfig}

\* ------------------------------------------------------------- trace data

\* A batch (pdata.Traces) is a sequence of resource groups [ils |-> ...], each
\* a sequence of instrumentation-library groups [spans |-> ...], each a
\* sequence of spans.  A span keeps what the path modelled here reads: its
\* identifier and its start and end time.
ResourceGroup(ils) == [ils |-> ils]

LibraryGroup(spans) == [spans |-> spans]

\* A span whose envelope can be built (end after start) or not (end before
\* start).
NewSpan(id, ok) ==
    [spanID |-> id, startTime |-> 1, endTime |-> IF ok THEN 2 ELSE 0]

\* Where the next span of a batch under construction goes: the same library
\* group, a new library group of the same resource, or a new resource group.
Marks == {"span", "lib", "res"}

AddSpan(td, mark, span) ==
    LET r   == Len(td)
        ils == td[r].ils
        l   == Len(ils)
    IN  CASE mark = "res" ->
               Append(td, ResourceGroup(<<LibraryGroup(<<span>>)>>))
          [] mark = "lib" ->
               [td EXCEPT ![r].ils = Append(ils, LibraryGroup(<<span>>))]
          [] OTHER ->
               [td EXCEPT ![r].ils[l].spans = Append(ils[l].spans, span)]

RECURSIVE BuildBatch(_, _, _)
BuildBatch(oks, marks, n) ==
    IF n = 0 THEN <<>>
    ELSE IF n = 1
         THEN <<ResourceGroup(<<LibraryGroup(<<NewSpan(1, oks[1])>>)>>)>>
         ELSE AddSpan(BuildBatch(oks, marks, n - 1), marks[n - 1],
                      NewSpan(n, oks[n]))

\* Every batch of exactly n spans without empty groups.
BatchesOf(n) ==
    { BuildBatch(oks, marks, n) :
        oks \in [1..n -> BOOLEAN], marks \in [1..(n - 1) -> Marks] }

\* Batches with groups but no span.
EmptyBatches ==
    { <<>>,
      <<ResourceGroup(<<>>)>>,
      <<ResourceGroup(<<LibraryGroup(<<>>)>>)>> }

\* The input batches of the batch-walking specifications.
Batches == EmptyBatches \cup UNION { BatchesOf(n) : n \in 1..MaxSpans }

\* The input batches of the lifecycle specifications: no span, one span, and
\* two spans in two resource groups of which the second cannot be built.
LifecycleBatches ==
    { <<>>,
      BuildBatch(<<TRUE>>, <<>>, 1),
      BuildBatch(<<TRUE, FALSE>>, <<"res">>, 2) }

\* pdata.Traces.SpanCount: the number of spans over all groups.
RECURSIVE SumSpans(_, _)
SumSpans(ils, l) ==
    IF l > Len(ils) THEN 0 ELSE Len(ils[l].spans) + SumSpans(ils, l + 1)

RECURSIVE SumResources(_, _)
SumResources(td, r) ==
    IF r > Len(td) THEN 0 ELSE SumSpans(td[r].ils, 1) + SumResources(td, r + 1)

SpanCount(td) == SumResources(td, 1)

\* ------------------------------------------------------- envelope builder

NoEnvelope == [none |-> TRUE]

errInvalidDuration == NewError("span duration is not positive")

\* spanToEnvelope(resource, instrumentationLibrary, span, logger): an
\* envelope, or an error when end - start is not positive.  The envelope
\* leaves the builder without an instrumentation key.
spanToEnvelope(resource, instrumentationLibrary, span) ==
    LET duration == span.endTime - span.startTime
    IN  IF duration <= 0
        THEN [envelope |-> NoEnvelope, err |-> errInvalidDuration]
        ELSE [envelope |-> [IKey     |-> "",
                            resource |-> resource,
                            library  |-> instrumentationLibrary,
                            id       |-> span.spanID,
                            time     |-> span.startTime,
                            duration |-> duration],
              err |-> NoError]

\* consumererror.Permanent(err): err marked as not to be retried.
Permanent(err) == [err EXCEPT !.permanent = TRUE]

\* ------------------------------------------------------------ batch walker

\* Accept(traceData, visitor) calls visitor.visit for every (resource,
\* library, span) triple: resource groups in order, within each its library
\* groups in order, within each its spans in order.  Traversal is the list of
\* triples in that order; the walker stops when visit returns false.
VisitsOfLibrary(r, l, spans) ==
    [s \in 1..Len(spans) |-> [resource |-> r, library |-> l, span |-> spans[s]]]

RECURSIVE VisitsOfResource(_, _, _)
VisitsOfResource(r, ils, l) ==
    IF l > Len(ils) THEN <<>>
    ELSE VisitsOfLibrary(r, l, ils[l].spans) \o VisitsOfResource(r, ils, l + 1)

RECURSIVE VisitsFrom(_, _)
VisitsFrom(td, r) ==
    IF r > Len(td) THEN <<>>
    ELSE VisitsOfResource(r, td[r].ils, 1) \o VisitsFrom(td, r + 1)

Traversal(td) == VisitsFrom(td, 1)

\* ------------------------------------------------------------------- state

\* Host threads that call consume.
Threads == {"t1", "t2"}

VARIABLES
    tChannel,    \* factory.tChannel: NilChannel or the index of a channel
    channels,    \* the transport channels constructed so far
    listeners,   \* diagnostics message listeners attached so far
    exporters,   \* the traceExporter structs created so far
    createRet,   \* what the last createTraceExporter call returned, and the
                 \* Close calls the returned exporter's channel had received
    numCreates,  \* createTraceExporter calls so far
    shut,        \* per exporter: its Shutdown call
    pc,          \* per thread: where its consume call stands
    call,        \* per thread: the arguments and locals of its consume call
    visitor,     \* per thread: the traceVisitor of its consume call
    sends,       \* per thread: the Send calls its consume call has issued
    visited,     \* per thread: the spans its consume call handed to visit
    ret,         \* per thread: what its last consume call returned
    configs      \* the *Config objects createDefaultConfig allocated and returned

factoryVars == <<tChannel, channels, listeners, exporters, createRet, numCreates>>

consumeVars == <<pc, call, visitor, sends, visited, ret>>

vars == <<tChannel, channels, listeners, exporters, createRet, numCreates, shut,
          pc, call, visitor, sends, visited, ret, configs>>

\* ------------------------------------------------------- transport channel

\* The channel telemetryClient.Channel() returns for a telemetry
\* configuration: an in-memory buffer of at most MaxBuffer envelopes that it
\* delivers in the background while it is up, and the number of Close calls
\* it received.
NewChannel(iKey, endpointUrl, maxBatchSize, maxBatchInterval) ==
    [ iKey             |-> iKey,
      endpointUrl      |-> endpointUrl,
      maxBatchSize     |-> maxBatchSize,
      maxBatchInterval |-> maxBatchInterval,
      buffer           |-> 0,
      up               |-> TRUE,
      closeCalls       |-> 0 ]

\* transportChannel.Send(envelope): never blocks, never fails; the envelope is
\* buffered, or dropped when the buffer is full.
Send(ch, envelope) ==
    [ch EXCEPT !.buffer = IF @ < MaxBuffer THEN @ + 1 ELSE @]

\* transportChannel.Close(timeout): the channel after the call, and the new
\* completion signal it returns, not yet fired.
Close(ch, timeout) ==
    [ channel |-> [ch EXCEPT !.closeCalls = @ + 1],
      signal  |-> [timeout |-> timeout, fired |-> FALSE] ]

NoSignal == [timeout |-> 0, fired |-> FALSE]

\* The signal Close returned to the Shutdown call of exporter e fires: the
\* buffer is drained, or the timeout of that Close call has elapsed (time is
\* not measured, so the timeout can elapse in any state).
SignalFires(e, cause) ==
    /\ e \in 1..Len(exporters)
    /\ shut[e].pc = "waiting"
    /\ ~shut[e].signal.fired
    /\ cause = "drained" => channels[exporters[e].transportChannel].buffer = 0
    /\ shut' = [shut EXCEPT ![e].signal.fired = TRUE]
    /\ UNCHANGED <<factoryVars, consumeVars, configs>>

\* The channel delivers one buffered envelope to the ingestion endpoint.
Transmit(c) ==
    /\ c \in 1..Len(channels)
    /\ channels[c].up
    /\ channels[c].buffer > 0
    /\ channels' = [channels EXCEPT ![c].buffer = @ - 1]
    /\ UNCHANGED <<tChannel, listeners, exporters, createRet, numCreates, shut>>
    /\ UNCHANGED <<consumeVars, configs>>

\* The ingestion endpoint becomes unreachable, or reachable again.
Outage(c) ==
    /\ c \in 1..Len(channels)
    /\ channels' = [channels EXCEPT ![c].up = ~@]
    /\ UNCHANGED <<tChannel, listeners, exporters, createRet, numCreates, shut>>
    /\ UNCHANGED <<consumeVars, configs>>

\* ----------------------------------------------------------------- factory

\* getTransportChannel without the f.tChannel == nil guard: every call
\* constructs a channel and stores it in the factory.
getTransportChannelUnguarded(exporterConfig, debugEnabled) ==
    [ tc        |-> Len(channels) + 1,
      tChannel  |-> Len(channels) + 1,
      channels  |-> Append(channels,
                           NewChannel(exporterConfig.InstrumentationKey,
                                      exporterConfig.Endpoint,
                                      exporterConfig.MaxBatchSize,
                                      exporterConfig.MaxBatchInterval)),
      listeners |-> IF debugEnabled THEN listeners + 1 ELSE listeners ]

\* getTransportChannel attaching the diagnostics listener after the
\* f.tChannel == nil block: every call with a debug logger attaches one.
getTransportChannelListenerOutside(exporterConfig, debugEnabled) ==
    IF tChannel = NilChannel
    THEN [ tc        |-> Len(channels) + 1,
           tChannel  |-> Len(channels) + 1,
           channels  |-> Append(channels,
                                NewChannel(exporterConfig.InstrumentationKey,
                                           exporterConfig.Endpoint,
                                           exporterConfig.MaxBatchSize,
                                           exporterConfig.MaxBatchInterval)),
           listeners |-> IF debugEnabled THEN listeners + 1 ELSE listeners ]
    ELSE [ tc        |-> tChannel,
           tChannel  |-> tChannel,
           channels  |-> channels,
           listeners |-> IF debugEnabled THEN listeners + 1 ELSE listeners ]

\* getTransportChannel constructing a channel also when the factory's
\* channel has been closed, and storing it in the factory.
getTransportChannelReopens(exporterConfig, debugEnabled) ==
    IF tChannel = NilChannel \/ channels[tChannel].closeCalls > 0
    THEN [ tc        |-> Len(channels) + 1,
           tChannel  |-> Len(channels) + 1,
           channels  |-> Append(channels,
                                NewChannel(exporterConfig.InstrumentationKey,
                                           exporterConfig.Endpoint,
                                           exporterConfig.MaxBatchSize,
                                           exporterConfig.MaxBatchInterval)),
           listeners |-> IF debugEnabled THEN listeners + 1 ELSE listeners ]
    ELSE [ tc        |-> tChannel,
           tChannel  |-> tChannel,
           channels  |-> channels,
           listeners |-> listeners ]

\* factory.getTransportChannel(exporterConfig, logger): the factory's channel,
\* constructed from exporterConfig when the factory holds none; the
\* diagnostics listener is attached in that case if the logger is enabled at
\* debug level.  The result names the channel returned and the factory state
\* left behind.
getTransportChannel(exporterConfig, debugEnabled) ==
    IF tChannel = NilChannel
    THEN [ tc        |-> Len(channels) + 1,
           tChannel  |-> Len(channels) + 1,
           channels  |-> Append(channels,
                                NewChannel(exporterConfig.InstrumentationKey,
                                           exporterConfig.Endpoint,
                                           exporterConfig.MaxBatchSize,
                                           exporterConfig.MaxBatchInterval)),
           listeners |-> IF debugEnabled THEN listeners + 1 ELSE listeners ]
    ELSE [ tc        |-> tChannel,
           tChannel  |-> tChannel,
           channels  |-> channels,
           listeners |-> listeners ]

\* newTraceExporter(config, transportChannel, logger): the exporter struct.
newTraceExporter(config, transportChannel) ==
    [ config           |-> config,
      transportChannel |-> transportChannel,
      shutdownTimeout  |-> config.ShutdownTimeout ]

\* The cfg.(*Config) type assertion of createTraceExporter.
IsConfig(cfg) == cfg.goType = "*Config"

\* No Shutdown call yet on an exporter.
NotShut == [pc |-> "ready", ctxCancelled |-> FALSE, signal |-> NoSignal, err |-> NotReturned]

\* createTraceExporter obtaining the transport channel before it checks the
\* type of the configuration.
createTraceExporterLateCheck(cfg, debugEnabled) ==
    /\ numCreates < MaxCreates
    /\ numCreates' = numCreates + 1
    /\ LET got == getTransportChannel(cfg, debugEnabled)
       IN  /\ tChannel' = got.tChannel
           /\ channels' = got.channels
           /\ listeners' = got.listeners
           /\ IF ~IsConfig(cfg)
              THEN /\ createRet' = [exporter |-> 0,
                                    err |-> errUnexpectedConfigurationType,
                                    closesBefore |-> 0]
                   /\ UNCHANGED <<exporters, shut>>
              ELSE /\ exporters' = Append(exporters, newTraceExporter(cfg, got.tc))
                   /\ shut' = Append(shut, NotShut)
                   /\ createRet' = [exporter |-> Len(exporters) + 1, err |-> NoError,
                                    closesBefore |-> got.channels[got.tc].closeCalls]
    /\ UNCHANGED <<consumeVars, configs>>

\* factory.createTraceExporter(ctx, params, cfg).
createTraceExporter(cfg, debugEnabled) ==
    /\ numCreates < MaxCreates
    /\ numCreates' = numCreates + 1
    /\ IF ~IsConfig(cfg)
       THEN /\ createRet' = [exporter |-> 0, err |-> errUnexpectedConfigurationType,
                             closesBefore |-> 0]
            /\ UNCHANGED <<tChannel, channels, listeners, exporters, shut>>
       ELSE LET got == getTransportChannel(cfg, debugEnabled)
            IN  /\ tChannel' = got.tChannel
                /\ channels' = got.channels
                /\ listeners' = got.listeners
                /\ exporters' = Append(exporters, newTraceExporter(cfg, got.tc))
                /\ shut' = Append(shut, NotShut)
                /\ createRet' = [exporter |-> Len(exporters) + 1, err |-> NoError,
                                 closesBefore |-> got.channels[got.tc].closeCalls]
    /\ UNCHANGED <<consumeVars, configs>>

\* ----------------------------------------------------------------- consume

\* A thread that is not in a consume call.
NoCall == [exporter |-> 0, traceData |-> <<>>, spanCount |-> 0, cursor |-> 0]

\* onTraceData taking up the visitor an earlier call on the exporter left,
\* with its count and its error, instead of making one.
KeptVisitor(exporter) ==
    LET made == [processed |-> 0, err |-> NoError, exporter |-> exporter]
        left == { t \in Threads : visitor[t].exporter = exporter }
    IN  IF exporter = 0 THEN made
        ELSE IF left = {} THEN made
        ELSE visitor[CHOOSE t \in left : TRUE]

\* &traceVisitor{exporter: exporter}.
NewVisitor(exporter) == [processed |-> 0, err |-> NoError, exporter |-> exporter]

NoReturn == [droppedSpans |-> -1, err |-> NotReturned]

\* visit answering true after a builder error: the walk is not cut short.
visitKeepsWalking(v, resource, instrumentationLibrary, span) ==
    LET built == spanToEnvelope(resource, instrumentationLibrary, span)
    IN  IF built.err # NoError
        THEN [ visitor |-> [v EXCEPT !.err = Permanent(built.err)],
               sent    |-> <<>>,
               ok      |-> TRUE ]
        ELSE [ visitor |-> [v EXCEPT !.processed = @ + 1],
               sent    |-> << [built.envelope EXCEPT
                                 !.IKey = exporters[v.exporter].config.InstrumentationKey] >>,
               ok      |-> TRUE ]

\* visit without v.processed++.
visitNoCount(v, resource, instrumentationLibrary, span) ==
    LET built == spanToEnvelope(resource, instrumentationLibrary, span)
    IN  IF built.err # NoError
        THEN [ visitor |-> [v EXCEPT !.err = Permanent(built.err)],
               sent    |-> <<>>,
               ok      |-> FALSE ]
        ELSE [ visitor |-> v,
               sent    |-> << [built.envelope EXCEPT
                                 !.IKey = exporters[v.exporter].config.InstrumentationKey] >>,
               ok      |-> TRUE ]

\* visit stamping the key the shared channel was configured with instead of
\* the key of the exporter's own configuration.
visitChannelKey(v, resource, instrumentationLibrary, span) ==
    LET built == spanToEnvelope(resource, instrumentationLibrary, span)
    IN  IF built.err # NoError
        THEN [ visitor |-> [v EXCEPT !.err = Permanent(built.err)],
               sent    |-> <<>>,
               ok      |-> FALSE ]
        ELSE [ visitor |-> [v EXCEPT !.processed = @ + 1],
               sent    |-> << [built.envelope EXCEPT
                                 !.IKey = channels[exporters[v.exporter].transportChannel].iKey] >>,
               ok      |-> TRUE ]

\* visit recording the builder's error as it is, not marked permanent.
visitUnmarkedError(v, resource, instrumentationLibrary, span) ==
    LET built == spanToEnvelope(resource, instrumentationLibrary, span)
    IN  IF built.err # NoError
        THEN [ visitor |-> [v EXCEPT !.err = built.err],
               sent    |-> <<>>,
               ok      |-> FALSE ]
        ELSE [ visitor |-> [v EXCEPT !.processed = @ + 1],
               sent    |-> << [built.envelope EXCEPT
                                 !.IKey = exporters[v.exporter].config.InstrumentationKey] >>,
               ok      |-> TRUE ]

\* visit treating a channel that is full or cannot deliver as a failure of
\* the span: nothing is sent, an error is recorded and the walk stops.
visitChecksTransport(v, resource, instrumentationLibrary, span) ==
    LET built == spanToEnvelope(resource, instrumentationLibrary, span)
        ch    == channels[exporters[v.exporter].transportChannel]
    IN  IF built.err # NoError
        THEN [ visitor |-> [v EXCEPT !.err = Permanent(built.err)],
               sent    |-> <<>>,
               ok      |-> FALSE ]
        ELSE IF ch.buffer >= MaxBuffer \/ ~ch.up
        THEN [ visitor |-> [v EXCEPT !.err = NewError("transport unavailable")],
               sent    |-> <<>>,
               ok      |-> FALSE ]
        ELSE [ visitor |-> [v EXCEPT !.processed = @ + 1],
               sent    |-> << [built.envelope EXCEPT
                                 !.IKey = exporters[v.exporter].config.InstrumentationKey] >>,
               ok      |-> TRUE ]

\* traceVisitor.visit(resource, instrumentationLibrary, span) on visitor v:
\* the visitor it leaves, the envelopes it passed to the exporter's
\* transportChannel.Send, and its result ok.
visit(v, resource, instrumentationLibrary, span) ==
    LET built == spanToEnvelope(resource, instrumentationLibrary, span)
    IN  IF built.err # NoError
        THEN [ visitor |-> [v EXCEPT !.err = Permanent(built.err)],
               sent    |-> <<>>,
               ok      |-> FALSE ]
        ELSE [ visitor |-> [v EXCEPT !.processed = @ + 1],
               sent    |-> << [built.envelope EXCEPT
                                 !.IKey = exporters[v.exporter].config.InstrumentationKey] >>,
               ok      |-> TRUE ]

\* The early return of onTraceData reporting an error for a batch without
\* spans.
emptyBatchReturnError ==
    [droppedSpans |-> 0, err |-> Permanent(NewError("no spans to export"))]

\* What onTraceData returns for a batch without spans: (0, nil).
emptyBatchReturn == [droppedSpans |-> 0, err |-> NoError]

\* One visitor kept for all calls instead of one made per call.
SharedVisitorSlot(t) == "t1"

\* The visitor of the consume call of thread t: one made for that call.
VisitorSlot(t) == t

\* onTraceData returning the processed count as the dropped count.
onTraceDataReturnProcessed(spanCount, v) ==
    [droppedSpans |-> v.processed, err |-> v.err]

\* What onTraceData returns after Accept: (spanCount - visitor.processed,
\* visitor.err).
onTraceDataReturn(spanCount, v) ==
    [droppedSpans |-> spanCount - v.processed, err |-> v.err]

\* The host contract for consume: the exporter exists and Shutdown has not
\* been called on it.
Ready(e) == e \in 1..Len(exporters) /\ shut[e].pc = "ready"

\* traceExporter.onTraceData(context, traceData) begins on thread t: it returns
\* (0, nil) at once for a batch without spans, and otherwise makes a visitor
\* and enters Accept.
onTraceData(t, e, traceData) ==
    /\ pc[t] \in {"idle", "done"}
    /\ Ready(e)
    /\ sends' = [sends EXCEPT ![t] = <<>>]
    /\ visited' = [visited EXCEPT ![t] = <<>>]
    /\ LET spanCount == SpanCount(traceData)
       IN  IF spanCount = 0
           THEN /\ call' = [call EXCEPT ![t] =
                      [exporter |-> e, traceData |-> traceData,
                       spanCount |-> spanCount, cursor |-> 0]]
                /\ ret' = [ret EXCEPT ![t] = emptyBatchReturn]
                /\ pc' = [pc EXCEPT ![t] = "done"]
                /\ UNCHANGED visitor
           ELSE /\ call' = [call EXCEPT ![t] =
                      [exporter |-> e, traceData |-> traceData,
                       spanCount |-> spanCount, cursor |-> 1]]
                /\ visitor' = [visitor EXCEPT ![VisitorSlot(t)] = NewVisitor(e)]
                /\ ret' = [ret EXCEPT ![t] = NoReturn]
                /\ pc' = [pc EXCEPT ![t] = "walking"]
    /\ UNCHANGED <<factoryVars, shut, configs>>

\* The envelopes of a visit, each passed to the Send of channel c; a logged
\* Send call keeps the envelope, the channel, the number of Close calls the
\* channel had received before, and whether the channel had room to buffer
\* the envelope.
RECURSIVE SendAll(_, _, _)
SendAll(chs, c, envelopes) ==
    IF envelopes = <<>> THEN chs
    ELSE SendAll([chs EXCEPT ![c] = Send(@, Head(envelopes))], c, Tail(envelopes))

SendLog(c, envelopes) ==
    [i \in 1..Len(envelopes) |->
        [envelope |-> envelopes[i], channel |-> c,
         closesBefore |-> channels[c].closeCalls,
         room |-> channels[c].buffer + (i - 1) < MaxBuffer]]

\* One iteration of Accept on thread t: the walker calls visit on the next
\* triple of the traversal, and returns to onTraceData when visit answered
\* false or no triple is left.
Visit(t) ==
    /\ pc[t] = "walking"
    /\ LET triples == Traversal(call[t].traceData)
           next    == triples[call[t].cursor]
           v       == visitor[VisitorSlot(t)]
           c       == exporters[v.exporter].transportChannel
           r       == visit(v, next.resource, next.library, next.span)
       IN  /\ call[t].cursor <= Len(triples)
           /\ visitor' = [visitor EXCEPT ![VisitorSlot(t)] = r.visitor]
           /\ visited' = [visited EXCEPT ![t] = Append(@, next.span.spanID)]
           /\ channels' = SendAll(channels, c, r.sent)
           /\ sends' = [sends EXCEPT ![t] = @ \o SendLog(c, r.sent)]
           /\ call' = [call EXCEPT ![t].cursor = @ + 1]
           /\ pc' = [pc EXCEPT ![t] =
                  IF r.ok /\ call[t].cursor < Len(triples)
                  THEN "walking" ELSE "walked"]
    /\ UNCHANGED <<tChannel, listeners, exporters, createRet, numCreates, shut, ret, configs>>

\* onTraceData returns on thread t after Accept.
ConsumeReturn(t) ==
    /\ pc[t] = "walked"
    /\ ret' = [ret EXCEPT ![t] =
           onTraceDataReturn(call[t].spanCount, visitor[VisitorSlot(t)])]
    /\ pc' = [pc EXCEPT ![t] = "done"]
    /\ UNCHANGED <<factoryVars, shut, call, visitor, sends, visited, configs>>

\* ---------------------------------------------------------------- shutdown

\* The timeout Shutdown hands to Close.
CloseTimeout(exporter) == exporter.shutdownTimeout

\* Shutdown giving up the wait when its context is cancelled.
SignalOrContext(sh, ch) == sh.signal.fired \/ sh.ctxCancelled

\* Shutdown waiting for the buffer to drain instead of for the signal.
SignalWhenDrained(sh, ch) == ch.buffer = 0

\* Whether the receive <-signal of Shutdown call sh on channel ch can
\* complete: the signal Close returned has fired.  Neither the context nor the
\* channel is looked at.
SignalReceived(sh, ch) == sh.signal.fired

\* traceExporter.Shutdown(ctx) is called on exporter e, which no consume call
\* is using: it calls Close and waits on the signal.
Shutdown(e, ctxCancelled) ==
    /\ Ready(e)
    /\ \A t \in Threads : pc[t] \in {"walking", "walked"} => call[t].exporter # e
    /\ LET c      == exporters[e].transportChannel
           closed == Close(channels[c], CloseTimeout(exporters[e]))
       IN  /\ channels' = [channels EXCEPT ![c] = closed.channel]
           /\ shut' = [shut EXCEPT ![e] =
                  [pc |-> "waiting", ctxCancelled |-> ctxCancelled,
                   signal |-> closed.signal, err |-> NotReturned]]
    /\ UNCHANGED <<tChannel, listeners, exporters, createRet, numCreates>>
    /\ UNCHANGED <<consumeVars, configs>>

\* Shutdown returns nil once the signal is received.
ShutdownReturn(e) ==
    /\ e \in 1..Len(exporters)
    /\ shut[e].pc = "waiting"
    /\ SignalReceived(shut[e], channels[exporters[e].transportChannel])
    /\ shut' = [shut EXCEPT ![e].pc = "closed", ![e].err = NoError]
    /\ UNCHANGED <<factoryVars, consumeVars, configs>>

\* ---------------------------------------------------- default configuration

\* No createDefaultConfig call made yet: no *Config allocated, none returned.
NoConfigs == [heap |-> <<>>, calls |-> <<>>]

\* createDefaultConfig returning the address of one Config kept for all
\* calls.
SharedConfigAddress(heap) == 1

\* The address of the Config that &Config{...} allocates: a new object at
\* every evaluation.
NewConfigAddress(heap) == Len(heap) + 1

\* A call of createDefaultConfig(): the Config at the address it returns
\* holds the default values when it is newly allocated; the call is logged
\* with the address and the value the caller finds there.
createDefaultConfigCall ==
    /\ Len(configs.calls) < MaxConfigs
    /\ LET a    == NewConfigAddress(configs.heap)
           heap == IF a > Len(configs.heap)
                   THEN Append(configs.heap, createDefaultConfig)
                   ELSE configs.heap
       IN  configs' = [heap  |-> heap,
                       calls |-> Append(configs.calls,
                                        [address |-> a, value |-> heap[a]])]
    /\ UNCHANGED <<factoryVars, consumeVars, shut>>

\* The fields of a returned *Config the host overwrites, and with what.
HostFieldValues ==
    { <<"InstrumentationKey", ConfigA.InstrumentationKey>>,
      <<"InstrumentationKey", ConfigB.InstrumentationKey>>,
      <<"Endpoint", ConfigB.Endpoint>>,
      <<"MaxBatchSize", ConfigB.MaxBatchSize>> }

\* The host writes a field of the *Config at address a, which a
\* createDefaultConfig call returned to it.
SetConfigField(a, field, value) ==
    /\ \E i \in 1..Len(configs.calls) : configs.calls[i].address = a
    /\ configs.heap[a][field] # value
    /\ configs' = [configs EXCEPT !.heap[a][field] = value]
    /\ UNCHANGED <<factoryVars, consumeVars, shut>>

\* ---------------------------------------------------------- specifications

\* The threads idle, no consume call made yet.
InitThreads ==
    /\ pc = [t \in Threads |-> "idle"]
    /\ call = [t \in Threads |-> NoCall]
    /\ visitor = [t \in Threads |-> NewVisitor(0)]
    /\ sends = [t \in Threads |-> <<>>]
    /\ visited = [t \in Threads |-> <<>>]
    /\ ret = [t \in Threads |-> NoReturn]

\* The factory NewFactory returns: &factory{}, nothing created yet.
Init ==
    /\ tChannel = NilChannel
    /\ channels = <<>>
    /\ listeners = 0
    /\ exporters = <<>>
    /\ createRet = [exporter |-> 0, err |-> NotReturned, closesBefore |-> 0]
    /\ numCreates = 0
    /\ shut = <<>>
    /\ configs = NoConfigs
    /\ InitThreads

\* The lifecycle: the host creates exporters serially, one host thread
\* consumes small batches, exporters are shut down with a live context.  The
\* transport delivers nothing meanwhile.
Next ==
    \/ \E cfg \in HostConfigs, debugEnabled \in BOOLEAN :
           createTraceExporter(cfg, debugEnabled)
    \/ \E e \in 1..Len(exporters), td \in LifecycleBatches :
           onTraceData("t1", e, td)
    \/ Visit("t1")
    \/ ConsumeReturn("t1")
    \/ \E e \in 1..Len(exporters) : Shutdown(e, FALSE)
    \/ \E e \in 1..Len(exporters), cause \in {"drained", "timeout"} :
           SignalFires(e, cause)
    \/ \E e \in 1..Len(exporters) : ShutdownReturn(e)

Spec == Init /\ [][Next]_vars

\* The state after createTraceExporter(ConfigA) with a logger below debug
\* level on a new factory: one channel, one exporter.
InitOneExporter ==
    /\ tChannel = 1
    /\ channels = << NewChannel(ConfigA.InstrumentationKey, ConfigA.Endpoint,
                                ConfigA.MaxBatchSize, ConfigA.MaxBatchInterval) >>
    /\ listeners = 0
    /\ exporters = << newTraceExporter(ConfigA, 1) >>
    /\ createRet = [exporter |-> 1, err |-> NoError, closesBefore |-> 0]
    /\ numCreates = 1
    /\ shut = << NotShut >>
    /\ configs = NoConfigs
    /\ InitThreads

\* The state after createTraceExporter(ConfigA) and then
\* createTraceExporter(ConfigB) on a new factory: one channel, two exporters.
InitTwoExporters ==
    /\ tChannel = 1
    /\ channels = << NewChannel(ConfigA.InstrumentationKey, ConfigA.Endpoint,
                                ConfigA.MaxBatchSize, ConfigA.MaxBatchInterval) >>
    /\ listeners = 0
    /\ exporters = << newTraceExporter(ConfigA, 1), newTraceExporter(ConfigB, 1) >>
    /\ createRet = [exporter |-> 2, err |-> NoError, closesBefore |-> 0]
    /\ numCreates = 2
    /\ shut = << NotShut, NotShut >>
    /\ configs = NoConfigs
    /\ InitThreads

\* Concurrent consume: every thread makes one consume call on the exporter,
\* with any batch of at most MaxSpans spans, and the calls interleave at
\* every visit.
NextConc ==
    \/ \E t \in Threads, td \in Batches : pc[t] = "idle" /\ onTraceData(t, 1, td)
    \/ \E t \in Threads : Visit(t)
    \/ \E t \in Threads : ConsumeReturn(t)

SpecConc == InitOneExporter /\ [][NextConc]_vars

\* Two exporters on one channel whose transport delivers, stalls and
\* recovers, while a host thread consumes and the exporters are shut down
\* with a live or a cancelled context.
LiveExporters == {1, 2}

NextLive ==
    \/ \E e \in LiveExporters, td \in LifecycleBatches \cup EmptyBatches :
           onTraceData("t1", e, td)
    \/ Visit("t1")
    \/ ConsumeReturn("t1")
    \/ \E e \in LiveExporters, ctxCancelled \in BOOLEAN : Shutdown(e, ctxCancelled)
    \/ \E e \in LiveExporters, cause \in {"drained", "timeout"} : SignalFires(e, cause)
    \/ \E e \in LiveExporters : ShutdownReturn(e)
    \/ Transmit(1)
    \/ Outage(1)

\* The timeout of a Close call elapses, and a Shutdown whose signal has fired
\* goes on to return.
SpecLive ==
    /\ InitTwoExporters
    /\ [][NextLive]_vars
    /\ \A e \in LiveExporters :
          WF_vars(SignalFires(e, "timeout")) /\ WF_vars(ShutdownReturn(e))

\* The host asks for default configurations and fills in the ones it got.
NextConfig ==
    \/ createDefaultConfigCall
    \/ \E a \in 1..Len(configs.heap), fv \in HostFieldValues :
           SetConfigField(a, fv[1], fv[2])

SpecConfig == Init /\ [][NextConfig]_vars

\* Consume calls one after the other on one exporter: thread t1 makes a call
\* with any batch, and once it has returned thread t2 makes call after call.
NextSeq ==
    \/ \E td \in Batches : pc["t1"] = "idle" /\ onTraceData("t1", 1, td)
    \/ \E td \in Batches : pc["t1"] = "done" /\ onTraceData("t2", 1, td)
    \/ \E t \in Threads : Visit(t)
    \/ \E t \in Threads : ConsumeReturn(t)

SpecSeq == InitOneExporter /\ [][NextSeq]_vars

\* ------------------------------------------------------------ input order

\* The positions <<r, l, s>> of the spans of a batch: span s of library group
\* l of resource group r.
Positions(td) ==
    UNION { UNION { { <<r, l, s>> : s \in 1..Len(td[r].ils[l].spans) } :
                    l \in 1..Len(td[r].ils) } :
            r \in 1..Len(td) }

\* Batch-input order: by resource group, then library group, then span.
Earlier(p, q) ==
    \/ p[1] < q[1]
    \/ p[1] = q[1] /\ p[2] < q[2]
    \/ p[1] = q[1] /\ p[2] = q[2] /\ p[3] < q[3]

\* The 0-based index of position p in batch-input order, and the position at
\* index k.
IndexOf(td, p) == Cardinality({ q \in Positions(td) : Earlier(q, p) })

PositionAt(td, k) == CHOOSE p \in Positions(td) : IndexOf(td, p) = k

SpanAt(td, p) == td[p[1]].ils[p[2]].spans[p[3]]

NumSpans(td) == Cardinality(Positions(td))

\* Whether the envelope builder fails on the span at position p.
BuildFails(td, p) == spanToEnvelope(p[1], p[2], SpanAt(td, p)).err # NoError

\* The index of the first span in batch-input order on which the builder
\* fails; the number of spans when it fails on none.
FirstFailure(td) ==
    LET failing == { IndexOf(td, p) : p \in { q \in Positions(td) : BuildFails(td, q) } }
    IN  IF failing = {} THEN NumSpans(td)
        ELSE CHOOSE k \in failing : \A j \in failing : k <= j

\* Send call number i (from 1) of thread t passed the envelope the builder
\* makes of the span at index i - 1 of the thread's batch.
SendMatchesInput(t, i) ==
    LET td == call[t].traceData
        p  == PositionAt(td, i - 1)
    IN  /\ i <= NumSpans(td)
        /\ [sends[t][i].envelope EXCEPT !.IKey = ""]
              = spanToEnvelope(p[1], p[2], SpanAt(td, p)).envelope

\* Visit number i (from 1) of thread t was of the span at index i - 1.
VisitMatchesInput(t, i) ==
    LET td == call[t].traceData
    IN  /\ i <= NumSpans(td)
        /\ visited[t][i] = SpanAt(td, PositionAt(td, i - 1)).spanID

InCall(t) == pc[t] # "idle"

Returned(t) == pc[t] = "done"

\* ------------------------------------------------------------------ claims

\* C1: when the envelope builder first fails at the span of index k of a
\* batch of n spans (0 <= k < n), the consume call issues exactly k Send
\* calls, with the envelopes of the spans 0..k-1 in batch-input order, hands
\* no span after index k to the builder, sends none at index k or after, and
\* returns dropped = n - k.
C1_FirstFailureAtK ==
    \A t \in Threads :
        LET td == call[t].traceData
            n  == NumSpans(td)
            k  == FirstFailure(td)
        IN  (InCall(t) /\ k < n) =>
              /\ Len(sends[t]) <= k
              /\ \A i \in 1..Len(sends[t]) : SendMatchesInput(t, i)
              /\ Len(visited[t]) <= k + 1
              /\ \A i \in 1..Len(visited[t]) : VisitMatchesInput(t, i)
              /\ Returned(t) => /\ Len(sends[t]) = k
                                /\ Len(visited[t]) = k + 1
                                /\ ret[t].droppedSpans = n - k

\* A call returned on a batch of two spans of which the second is the first to
\* fail: the first span was sent, the second dropped.
C1_Witness ==
    \E t \in Threads :
        /\ Returned(t)
        /\ NumSpans(call[t].traceData) = 2
        /\ FirstFailure(call[t].traceData) = 1
        /\ Len(sends[t]) = 1

\* C2: when the builder succeeds for every span of a batch, the consume call
\* returns dropped = 0 and a nil error, and has issued exactly one Send call
\* per span, in batch-input order.
C2_AllSpansSent ==
    \A t \in Threads :
        LET td == call[t].traceData
            n  == NumSpans(td)
        IN  (InCall(t) /\ FirstFailure(td) = n) =>
              /\ Len(sends[t]) <= n
              /\ \A i \in 1..Len(sends[t]) : SendMatchesInput(t, i)
              /\ Returned(t) => /\ ret[t] = [droppedSpans |-> 0, err |-> NoError]
                                /\ Len(sends[t]) = n

\* A call returned after sending both spans of a batch that spreads them over
\* two resource groups.
C2_Witness ==
    \E t \in Threads :
        /\ Returned(t)
        /\ Len(call[t].traceData) = 2
        /\ FirstFailure(call[t].traceData) = 2
        /\ Len(sends[t]) = 2

\* C3: every envelope passed to Send carries the instrumentation key of the
\* configuration of the exporter whose consume call sent it, also when
\* exporters with different keys share the factory's channel.
C3_KeyStamped ==
    \A t \in Threads :
        \A i \in 1..Len(sends[t]) :
            sends[t][i].envelope.IKey
                = exporters[call[t].exporter].config.InstrumentationKey

\* Two exporters with the keys ikey-a and ikey-b share the channel built for
\* ikey-a, and a consume call on the second has sent an envelope.
C3_Witness ==
    \E t \in Threads :
        /\ Len(exporters) = 2
        /\ exporters[1].transportChannel = exporters[2].transportChannel
        /\ exporters[1].config.InstrumentationKey = "ikey-a"
        /\ exporters[2].config.InstrumentationKey = "ikey-b"
        /\ call[t].exporter = 2
        /\ Len(sends[t]) >= 1
        /\ sends[t][1].envelope.IKey = "ikey-b"

\* C4: createTraceExporter rejects a configuration whose instrumentation key
\* is empty, so that no exporter exists with an empty key and no envelope with
\* an empty instrumentation key is passed to Send.
C4_EmptyKeyRejected ==
    /\ \A e \in 1..Len(exporters) : exporters[e].config.InstrumentationKey # ""
    /\ \A t \in Threads :
          \A i \in 1..Len(sends[t]) : sends[t][i].envelope.IKey # ""

\* C5: over serial createTraceExporter calls the transport channel is
\* constructed exactly once, by the first call that passes the type check and
\* from that call's configuration, and every exporter is bound to it.
C5_OneChannel ==
    /\ Len(channels) <= 1
    /\ Len(channels) = 1 <=> Len(exporters) >= 1
    /\ Len(exporters) = 0 => tChannel = NilChannel
    /\ Len(exporters) >= 1 =>
          /\ tChannel = 1
          /\ channels[1].iKey = exporters[1].config.InstrumentationKey
          /\ channels[1].endpointUrl = exporters[1].config.Endpoint
          /\ channels[1].maxBatchSize = exporters[1].config.MaxBatchSize
          /\ channels[1].maxBatchInterval = exporters[1].config.MaxBatchInterval
    /\ \A e \in 1..Len(exporters) : exporters[e].transportChannel = tChannel

\* Two exporters were created from different configurations and one channel
\* was constructed.
C5_Witness ==
    /\ Len(exporters) = 2
    /\ exporters[1].config # exporters[2].config
    /\ Len(channels) = 1
    /\ exporters[2].transportChannel = 1

RECURSIVE SumOver(_, _)
SumOver(S, f) ==
    IF S = {} THEN 0
    ELSE LET x == CHOOSE y \in S : TRUE IN f[x] + SumOver(S \ {x}, f)

AllBuild(t) == FirstFailure(call[t].traceData) = NumSpans(call[t].traceData)

\* The state part of C6: a call on a batch whose spans all build sends them in
\* batch-input order and returns dropped = 0, and once every thread has
\* returned from such a call the Send calls number the sum of the batches'
\* span counts.
C6_CountsAndOrder ==
    /\ \A t \in Threads :
          (InCall(t) /\ AllBuild(t)) =>
              /\ \A i \in 1..Len(sends[t]) : SendMatchesInput(t, i)
              /\ Returned(t) => ret[t].droppedSpans = 0
    /\ (\A t \in Threads : Returned(t) /\ AllBuild(t)) =>
          SumOver(Threads, [t \in Threads |-> Len(sends[t])])
              = SumOver(Threads, [t \in Threads |-> NumSpans(call[t].traceData)])

\* The step part of C6: a step changes the visitor of a call only if it is a
\* step of that call.
C6_OwnVisitor ==
    \A t \in Threads :
        visitor'[t] # visitor[t] => (pc'[t] # pc[t] \/ call'[t] # call[t])

\* C6: when threads call consume concurrently on the same exporter with
\* batches whose spans all build, under every interleaving the Send calls
\* number the sum of the span counts, each call returns dropped = 0, the Send
\* calls of each call are in its batch's input order, and no call reads or
\* writes the processed count and error of another.
C6_ConcurrentConsume == []C6_CountsAndOrder /\ [][C6_OwnVisitor]_vars

\* Both threads are inside a consume call on batches of two buildable spans:
\* one has walked its whole batch and not yet returned, the other has sent the
\* first of its two spans.
C6_Witness ==
    /\ pc["t1"] = "walked" /\ AllBuild("t1") /\ Len(sends["t1"]) = 2
    /\ pc["t2"] = "walking" /\ AllBuild("t2") /\ Len(sends["t2"]) = 1
    /\ NumSpans(call["t2"].traceData) = 2
    /\ call["t1"].exporter = call["t2"].exporter

\* The exporters on whose channel c Shutdown has been called.
ShutOn(c) ==
    { e \in 1..Len(exporters) :
        exporters[e].transportChannel = c /\ shut[e].pc # "ready" }

\* C7: Shutdown calls Close exactly once, with the shutdown timeout of the
\* configuration the exporter was created with, does not return before the
\* signal Close returned has fired, whatever the context, and returns nil.
C7_ShutdownWaits ==
    /\ \A c \in 1..Len(channels) : channels[c].closeCalls = Cardinality(ShutOn(c))
    /\ \A e \in 1..Len(exporters) :
          /\ shut[e].pc # "ready" =>
                shut[e].signal.timeout = exporters[e].config.ShutdownTimeout
          /\ shut[e].pc = "closed" => shut[e].signal.fired /\ shut[e].err = NoError

\* Both exporters have been shut down, and the one with the timeout of 1 s
\* returned from a Shutdown whose context was cancelled.
C7_Witness ==
    /\ channels[1].closeCalls = 2
    /\ shut[2].pc = "closed"
    /\ shut[2].ctxCancelled
    /\ shut[2].signal.timeout = 1
    /\ shut[1].pc = "closed"
    /\ shut[1].signal.timeout = 5

\* C8: given that the signal of Close fires when the buffer is drained or the
\* timeout has elapsed, every Shutdown call returns, whatever the state of the
\* transport and however many Send calls came before.
C8_ShutdownReturns ==
    \A e \in LiveExporters : (shut[e].pc = "waiting") ~> (shut[e].pc = "closed")

\* A Shutdown has returned although the buffer is full and the transport
\* cannot deliver.
C8_Witness ==
    \E e \in LiveExporters :
        /\ shut[e].pc = "closed"
        /\ ~channels[1].up
        /\ channels[1].buffer = MaxBuffer

\* C9: consume on a batch without spans returns (0, nil) and calls nothing on
\* the transport channel, whatever the state of exporter and transport.
C9_EmptyBatch ==
    \A t \in Threads :
        (Returned(t) /\ NumSpans(call[t].traceData) = 0) =>
            /\ ret[t] = [droppedSpans |-> 0, err |-> NoError]
            /\ sends[t] = <<>>
            /\ visited[t] = <<>>

\* A call returned on a batch that has a resource group and a library group
\* but no span, while the buffer is full and the transport cannot deliver.
C9_Witness ==
    \E t \in Threads :
        /\ Returned(t)
        /\ call[t].traceData = <<ResourceGroup(<<LibraryGroup(<<>>)>>)>>
        /\ ~channels[1].up
        /\ channels[1].buffer = MaxBuffer

\* C10: the dropped count a consume call returns lies between 0 and the
\* number of spans of its batch, and equals that number minus the number of
\* Send calls the call made.
C10_DroppedCount ==
    \A t \in Threads :
        Returned(t) =>
            LET n == NumSpans(call[t].traceData)
            IN  /\ 0 <= ret[t].droppedSpans
                /\ ret[t].droppedSpans <= n
                /\ ret[t].droppedSpans = n - Len(sends[t])

\* A call returned that sent one span of two and dropped the other.
C10_Witness ==
    \E t \in Threads :
        /\ Returned(t)
        /\ NumSpans(call[t].traceData) = 2
        /\ ret[t].droppedSpans = 1
        /\ Len(sends[t]) = 1

\* A step that is a createTraceExporter call.
CreateStep == numCreates' # numCreates

\* The step part of C11: a createTraceExporter call that returns an error
\* returns errUnexpectedConfigurationType and no exporter and leaves the
\* factory's channel reference, the channels constructed, the listeners
\* attached and the exporters as they were; a call that returns no error
\* returns an exporter whose configuration is of the exporter's type.
C11_CreateStep ==
    CreateStep =>
        /\ createRet'.err # NoError =>
              /\ createRet'.err = errUnexpectedConfigurationType
              /\ createRet'.exporter = 0
              /\ tChannel' = tChannel
              /\ channels' = channels
              /\ listeners' = listeners
              /\ exporters' = exporters
        /\ createRet'.err = NoError =>
              /\ createRet'.exporter = Len(exporters')
              /\ Len(exporters') = Len(exporters) + 1
              /\ IsConfig(exporters'[Len(exporters')].config)

\* C11: createTraceExporter called with a configuration that is not of the
\* exporter's type returns the configuration error and no exporter, and
\* constructs no transport channel and attaches no diagnostics listener.
C11_WrongTypeRejected == [][C11_CreateStep]_vars

\* The first createTraceExporter call on the factory returned the
\* configuration error.
C11_Witness ==
    /\ numCreates = 1
    /\ createRet.err = errUnexpectedConfigurationType

\* The error the builder returns for the span at index k of batch td.
BuildErrorAt(td, k) ==
    LET p == PositionAt(td, k)
    IN  spanToEnvelope(p[1], p[2], SpanAt(td, p)).err

\* C12: a consume call returns a non-nil error exactly when it returns
\* dropped > 0; a non-nil error is marked permanent and is the error the
\* builder returned for the first span, in traversal order, on which it
\* fails, which is the last span the call handed to the builder.
C12_ErrorIffDropped ==
    \A t \in Threads :
        Returned(t) =>
            LET td == call[t].traceData
                k  == FirstFailure(td)
            IN  /\ (ret[t].err # NoError) <=> (ret[t].droppedSpans > 0)
                /\ ret[t].err # NoError =>
                      /\ ret[t].err.permanent
                      /\ k < NumSpans(td)
                      /\ ret[t].err = Permanent(BuildErrorAt(td, k))
                      /\ Len(visited[t]) = k + 1
                      /\ VisitMatchesInput(t, k + 1)

\* A call returned an error for a batch whose first span builds and whose
\* second span does not.
C12_Witness ==
    \E t \in Threads :
        /\ Returned(t)
        /\ ret[t].err # NoError
        /\ FirstFailure(call[t].traceData) = 1

\* C13: every createDefaultConfig call returns the endpoint
\* https://dc.services.visualstudio.com/v2/track, max batch size 1024, max
\* batch interval 10 s, shutdown timeout 5 s and type and name azuremonitor;
\* any two calls return equal values at different addresses, so a value a
\* later call returns is the same whatever the host wrote to an earlier one.
C13_DefaultsFresh ==
    /\ \A i \in 1..Len(configs.calls) :
          LET cfg == configs.calls[i].value
          IN  /\ cfg.Endpoint = "https://dc.services.visualstudio.com/v2/track"
              /\ cfg.MaxBatchSize = 1024
              /\ cfg.MaxBatchInterval = 10
              /\ cfg.ShutdownTimeout = 5
              /\ cfg.TypeVal = "azuremonitor"
              /\ cfg.NameVal = "azuremonitor"
    /\ \A i, j \in 1..Len(configs.calls) :
          i < j => /\ configs.calls[i].value = configs.calls[j].value
                   /\ configs.calls[i].address # configs.calls[j].address

\* Two calls returned, and the host has overwritten every field it writes
\* in the Config of the first while the Config of the second is as returned.
C13_Witness ==
    /\ Len(configs.calls) = 2
    /\ LET first  == configs.heap[configs.calls[1].address]
           second == configs.heap[configs.calls[2].address]
       IN  /\ first.InstrumentationKey # ""
           /\ first.Endpoint # defaultEndpoint
           /\ first.MaxBatchSize # 1024
           /\ second = configs.calls[2].value

\* What a consume call returns for batch td by the batch alone: the spans
\* from the first one that does not build are dropped, and its error is
\* returned marked permanent.
ReturnOf(td) ==
    LET k == FirstFailure(td)
    IN  [droppedSpans |-> NumSpans(td) - k,
         err |-> IF k < NumSpans(td) THEN Permanent(BuildErrorAt(td, k))
                 ELSE NoError]

\* The state part of C14: what a call returned and the Send calls it issued
\* are those of its own batch.
C14_OwnBatch ==
    \A t \in Threads :
        Returned(t) =>
            /\ ret[t] = ReturnOf(call[t].traceData)
            /\ Len(sends[t]) = FirstFailure(call[t].traceData)
            /\ \A i \in 1..Len(sends[t]) : SendMatchesInput(t, i)

\* The step part of C14: no step of a consume call changes the exporter's
\* config, transportChannel or shutdownTimeout.
C14_ExporterKept ==
    (pc' # pc \/ call' # call) => exporters' = exporters

\* C14: in a sequence of consume calls on one exporter, the result and the
\* Send calls of each call depend on that call's batch only, whatever the
\* earlier calls returned, and no call changes a field of the exporter.
C14_CallsIndependent == []C14_OwnBatch /\ [][C14_ExporterKept]_vars

\* A call that returned an error and dropped spans was followed by a call
\* on the same exporter that sent every span of its batch and returned
\* (0, nil).
C14_Witness ==
    /\ Returned("t1")
    /\ ret["t1"].err # NoError
    /\ ret["t1"].droppedSpans > 0
    /\ Returned("t2")
    /\ call["t2"].exporter = call["t1"].exporter
    /\ ret["t2"] = [droppedSpans |-> 0, err |-> NoError]
    /\ Len(sends["t2"]) = NumSpans(call["t2"].traceData)
    /\ Len(sends["t2"]) > 0

\* The errors the builder returns for the spans of batch td.
BuildErrors(td) ==
    { spanToEnvelope(p[1], p[2], SpanAt(td, p)).err : p \in Positions(td) }

\* C15: what a consume call returns is decided by its batch and the
\* builder's outcomes alone, whatever the state of the transport: the dropped
\* count is the number of spans from the first builder failure on, a span
\* handed to Send is never counted as dropped even when the channel was full,
\* down or closed, and the error is nil or a builder error, never one of the
\* transport.
C15_TransportInvisible ==
    \A t \in Threads :
        Returned(t) =>
            LET td == call[t].traceData
            IN  /\ ret[t].droppedSpans = NumSpans(td) - FirstFailure(td)
                /\ ret[t].droppedSpans + Len(sends[t]) = NumSpans(td)
                /\ ret[t].err \in {NoError} \cup { Permanent(err) : err \in BuildErrors(td) }
                /\ (ret[t].err = NoError) <=> (FirstFailure(td) = NumSpans(td))

\* A call returned (0, nil) although the channel had no room for an envelope
\* it sent and cannot deliver.
C15_Witness ==
    \E t \in Threads :
        /\ Returned(t)
        /\ ret[t] = [droppedSpans |-> 0, err |-> NoError]
        /\ \E i \in 1..Len(sends[t]) :
              /\ ~sends[t][i].room
              /\ ~channels[sends[t][i].channel].up

\* The step part of C16: a createTraceExporter call attaches at most one
\* listener, and attaches one only when it constructs the factory's channel
\* and its logger is enabled at debug level; no other step attaches one.
C16_ListenerStep ==
    /\ ~CreateStep => listeners' = listeners
    /\ \A cfg \in HostConfigs, debugEnabled \in BOOLEAN :
          createTraceExporter(cfg, debugEnabled) =>
              /\ listeners' \in {listeners, listeners + 1}
              /\ listeners' = listeners + 1 =>
                    /\ debugEnabled
                    /\ tChannel = NilChannel
                    /\ tChannel' # NilChannel
                    /\ Len(channels') = Len(channels) + 1

\* C16: a factory attaches the diagnostics listener at most once, in the
\* createTraceExporter call that constructs the channel and only if that
\* call's logger is enabled at debug level; later calls attach none whatever
\* the level of their logger.
C16_ListenerOnce == [](listeners <= 1) /\ [][C16_ListenerStep]_vars

\* The call that constructed the channel attached the listener, and a later
\* call returned an exporter on that channel.
C16_Witness ==
    /\ listeners = 1
    /\ Len(channels) = 1
    /\ Len(exporters) = 2

\* C17: consume is never called on an exporter after Shutdown was called on
\* it (the guard Ready of onTraceData), and then no Send call is issued on a
\* transport channel that has received a Close call, also with several
\* exporters of one factory shut down at different times.
C17_NoSendAfterClose ==
    \A t \in Threads :
        \A i \in 1..Len(sends[t]) : sends[t][i].closesBefore = 0

\* The step part of C18, for a step that starts with the factory's channel
\* set: the reference stays, no channel is constructed, the channel keeps
\* the configuration it was built from and the Close calls it received; a
\* createTraceExporter call that returns an exporter leaves the channel as
\* it is and binds the exporter to it, closed or not.
C18_ChannelStep ==
    tChannel # NilChannel =>
        /\ tChannel' = tChannel
        /\ Len(channels') = Len(channels)
        /\ channels'[tChannel].iKey = channels[tChannel].iKey
        /\ channels'[tChannel].endpointUrl = channels[tChannel].endpointUrl
        /\ channels'[tChannel].maxBatchSize = channels[tChannel].maxBatchSize
        /\ channels'[tChannel].maxBatchInterval = channels[tChannel].maxBatchInterval
        /\ channels'[tChannel].closeCalls >= channels[tChannel].closeCalls
        /\ (CreateStep /\ createRet'.err = NoError) =>
              /\ channels' = channels
              /\ exporters'[createRet'.exporter].transportChannel = tChannel
              /\ createRet'.closesBefore = channels[tChannel].closeCalls

\* C18: once set, the factory's channel reference is never replaced or
\* reset; a later createTraceExporter call with another endpoint, batch size,
\* batch interval or key returns the channel built from the first
\* configuration, not reconfigured, and a call after a Shutdown returns the
\* closed channel instead of constructing one.
C18_ChannelKept == [][C18_ChannelStep]_vars

\* The last createTraceExporter call was made after a Shutdown had closed
\* the channel, with a configuration that differs from the channel's in
\* endpoint, batch size, batch interval and key, and returned that channel.
C18_Witness ==
    /\ createRet.err = NoError
    /\ createRet.closesBefore >= 1
    /\ LET exporter == exporters[createRet.exporter]
           ch       == channels[exporter.transportChannel]
       IN  /\ exporter.transportChannel = tChannel
           /\ exporter.config.Endpoint # ch.endpointUrl
           /\ exporter.config.MaxBatchSize # ch.maxBatchSize
           /\ exporter.config.MaxBatchInterval # ch.maxBatchInterval
           /\ exporter.config.InstrumentationKey # ch.iKey

====
